---- MODULE Spec2Model ----
(***************************************************************************)
(* Verification model of the due-diligence RAG backend:                    *)
(*   - the agent control loop (services/agent: graph.py and its nodes),    *)
(*     together with the two services that start and resume runs;          *)
(*   - the persistent vector store (storage/faiss_store.py) as used by     *)
(*     concurrently running ingestion workers.                             *)
(* The parts have their own specifications over one variable tuple:        *)
(* AgentSpec for the agent, StoreSpec for the life of a store with saves   *)
(* that may fail, ConcurrentSpec for two workers adding to one index,      *)
(* IngestSpec for ingestion runs on a document.                            *)
(* Each leaves the other part's variables unchanged.                       *)
(***************************************************************************)
EXTENDS Integers, Sequences, FiniteSets, TLC

VARIABLES
    pc,          \* position of the agent run: the node about to execute
    st,          \* AgentState of the current run (services/agent/state.py)
    retrieved,   \* what RETRIEVE returned for the current run
    llmCalls,    \* reasoning-collaborator calls made by the node that ran last
    answers,     \* AnswerModel rows: set of answer ids
    svc,         \* the operation the client requested last, and its outcome
    disk,        \* the two persisted artifacts of one index name
    store,       \* per worker: the FAISSStore instance it holds
    result,      \* what the store step taken last handed back: "ok", the
                 \* exception raised, or "pending" while the call goes on
    ipc,         \* position of the ingestion run: the stage about to execute
    document,    \* the DocumentModel row of the document being ingested
    projects,    \* the ProjectModel rows
    chunkRows,   \* ChunkModel rows of the document: committed, and pending
    layers,      \* chunk sets held by the semantic and the citation layer
    run,         \* the current ingestion run: what happened in it so far
    genInput,    \* the candidate list the last GENERATE of the run was given
    probe        \* one call of the narrowing of generate_node: input and result

agentVars == <<pc, st, retrieved, llmCalls, answers, svc, genInput>>
storeVars == <<disk, store, result>>
ingestVars == <<ipc, document, projects, chunkRows, layers, run>>
vars == <<pc, st, retrieved, llmCalls, answers, svc, disk, store, result,
          ipc, document, projects, chunkRows, layers, run, genInput, probe>>

None == "None"

(***************************************************************************)
(* Bounds of the model.                                                    *)
(***************************************************************************)
MaxRetriesBound == 2     \* max_retries is drawn from 0..MaxRetriesBound
MaxCited == 2            \* cited_indices has at most this many entries
MaxGraded == 3           \* candidates handed to grade_node on its own

(***************************************************************************)
(* The corpus the agent retrieves from: chunk ids and their documents.     *)
(***************************************************************************)
Chunks == {"c1", "c2"}
Docs == {"d1", "d2"}
ChunkDoc == ("c1" :> "d1") @@ ("c2" :> "d2")

RetrieveK == 5

\* Sequences over S of length at most n.
SeqUpTo(S, n) == UNION {[1..m -> S] : m \in 0..n}

\* Those without a repeated element.
DistinctSeqUpTo(S, n) ==
    {q \in SeqUpTo(S, n) : \A i, j \in 1..Len(q) : q[i] = q[j] => i = j}

\* [x for x in s if Keep(x)] -- a Python list comprehension with a filter.
RECURSIVE FilterSeq(_, _)
FilterSeq(s, keep) ==
    IF s = <<>> THEN <<>>
    ELSE IF keep[Head(s)] THEN <<Head(s)>> \o FilterSeq(Tail(s), keep)
         ELSE FilterSeq(Tail(s), keep)

Min(a, b) == IF a < b THEN a ELSE b

(***************************************************************************)
(* Texts.                                                                  *)
(***************************************************************************)
NoInfoText == "I'm sorry, I couldn't find any relevant information to answer this question."
GenErrorText == "Error during answer generation."
Answers == {"", "A1", "A2"}            \* what the collaborator may answer
Confidences == {0, 90}                 \* confidence score, in percent
Feedbacks == {None, "fb"}
\* document_ids is None or a list of document ids.
Scopes == {[none |-> TRUE, ids |-> {}]} \cup {[none |-> FALSE, ids |-> s] : s \in {{}, {"d1"}}}

\* Python truthiness of an Optional[str] and of an Optional[List[str]].
TruthyStr(x) == x # None /\ x # ""
TruthyScope(x) == ~x.none /\ x.ids # {}

(***************************************************************************)
(* AgentState as the callers build it (answer_service.py, chat_with_agent) *)
(***************************************************************************)
InitialState(scope, maxRetries, fb) ==
    [ document_ids     |-> scope,
      documents        |-> <<>>,
      generation       |-> None,
      is_answerable    |-> TRUE,
      confidence_score |-> 0,
      retries          |-> 0,
      max_retries      |-> maxRetries,
      steps            |-> <<>>,
      feedback         |-> fb ]

(***************************************************************************)
(* Reasoning collaborator: what generate_structured can hand back.         *)
(***************************************************************************)
BinaryScores == {"yes", "YES", "no"}
Lower == ("yes" :> "yes") @@ ("YES" :> "yes") @@ ("no" :> "no")

GeneratedResponses(n) ==
    [ answer : Answers, is_answerable : BOOLEAN, confidence_score : Confidences,
      cited_indices : SeqUpTo(0..(n + 1), MaxCited) ]

(***************************************************************************)
(* Nodes (services/agent/nodes).  Each returns the keys it updates; the    *)
(* graph overwrites those keys of the state.                               *)
(***************************************************************************)

\* HybridRetrievalService.search: post-filter of the hydrated hits.
HybridFilter(hits, scope) ==
    IF TruthyScope(scope)
    THEN FilterSeq(hits, [c \in Chunks |-> ChunkDoc[c] \in scope.ids])
    ELSE hits

\* retrieve_node, given the hydrated hits of the semantic search.
RetrieveNode(s, hits) ==
    [s EXCEPT !.documents = HybridFilter(hits, s.document_ids),
              !.steps = s.steps \o <<"retrieve">>]

\* <<1, ..., n>>
Indices(n) == [i \in 1..n |-> i]

\* Variant: grading stops at the first candidate judged irrelevant.
GradeNode_StopsAtFirstNo(s, scores) ==
    LET n == Len(s.documents)
        kept == FilterSeq(Indices(n),
                    [i \in 1..n |-> \A j \in 1..i : Lower[scores[j]] = "yes"])
    IN [s EXCEPT !.documents = [j \in 1..Len(kept) |-> s.documents[kept[j]]],
                 !.steps = s.steps \o <<"grade_documents">>]

\* grade_node, given one score per candidate: keeps the candidates whose
\* lower-cased score is "yes", in their order.
GradeNode(s, scores) ==
    LET n == Len(s.documents)
        kept == FilterSeq(Indices(n), [i \in 1..n |-> Lower[scores[i]] = "yes"])
    IN [s EXCEPT !.documents = [j \in 1..Len(kept) |-> s.documents[kept[j]]],
                 !.steps = s.steps \o <<"grade_documents">>]

\* generate_node without candidates: the short circuit before any call.
GenerateEmpty(s) ==
    [s EXCEPT !.generation = NoInfoText,
              !.is_answerable = FALSE,
              !.confidence_score = 0,
              !.steps = s.steps \o <<"generate">>]

\* generate_node when generate_structured returned response r.
\* Variant: the reported indices are taken as 0-based.
GenerateOk_ZeroBased(s, r) ==
    LET n == Len(s.documents)
        used == FilterSeq(r.cited_indices, [i \in 0..(n + 1) |-> 0 <= i /\ i < n])
    IN [s EXCEPT !.generation = r.answer,
                 !.is_answerable = r.is_answerable,
                 !.confidence_score = r.confidence_score,
                 !.documents = [j \in 1..Len(used) |-> s.documents[used[j] + 1]],
                 !.steps = s.steps \o <<"generate">>]

GenerateOk(s, r) ==
    LET n == Len(s.documents)
        used == FilterSeq(r.cited_indices, [i \in 0..(n + 1) |-> 0 < i /\ i <= n])
    IN [s EXCEPT !.generation = r.answer,
                 !.is_answerable = r.is_answerable,
                 !.confidence_score = r.confidence_score,
                 !.documents = [j \in 1..Len(used) |-> s.documents[used[j]]],
                 !.steps = s.steps \o <<"generate">>]

\* generate_node when LLMService() or generate_structured raised.
GenerateFailed(s) ==
    [s EXCEPT !.generation = GenErrorText,
              !.is_answerable = FALSE,
              !.confidence_score = 0,
              !.steps = s.steps \o <<"generate">>]

\* hallucination_node asks the collaborator unless this holds.
HallucinationSkips(s) == ~TruthyStr(s.generation) \/ s.documents = <<>>

\* hallucination_node without a collaborator call.
HallucinationSkip(s) ==
    [s EXCEPT !.steps = s.steps \o <<"check_hallucinations">>,
              !.is_answerable = TRUE]

\* Variant: the retry counter is raised on every verdict.
HallucinationNode_CountsEveryVerdict(s, score) ==
    LET is_answerable == (Lower[score] = "yes")
    IN [s EXCEPT !.steps = s.steps \o <<"check_hallucinations">>,
                 !.is_answerable = is_answerable,
                 !.retries = s.retries + 1]

\* hallucination_node when the collaborator returned score.
HallucinationNode(s, score) ==
    LET is_answerable == (Lower[score] = "yes")
    IN [s EXCEPT !.steps = s.steps \o <<"check_hallucinations">>,
                 !.is_answerable = is_answerable,
                 !.retries = s.retries + (IF is_answerable THEN 0 ELSE 1)]

(***************************************************************************)
(* Conditional edges (services/agent/graph.py), evaluated on the state the *)
(* node left behind; each yields the next node.                            *)
(***************************************************************************)
\* Variant: a run without relevant candidates ends instead of generating.
DecideToGenerate_EndsOnEmpty(s) ==
    IF s.documents = <<>> THEN "END" ELSE "generate"

DecideToGenerate(s) ==
    IF s.documents = <<>> THEN "generate" ELSE "generate"

\* Variant: the retry budget is compared two too high.
GradeGeneration_BudgetTooHigh(s) ==
    IF s.is_answerable THEN "useful"
    ELSE IF s.retries < s.max_retries + 2 THEN "not grounded" ELSE "useful"

GradeGenerationVDocumentsAndQuestion(s) ==
    IF s.is_answerable THEN "useful"
    ELSE IF s.retries < s.max_retries THEN "not grounded" ELSE "useful"

HallucinationEdges == ("not grounded" :> "generate") @@ ("useful" :> "END")

(***************************************************************************)
(* Agent run: graph.invoke(state) executes one node per step.              *)
(***************************************************************************)
Running == {"retrieve", "grade_documents", "generate", "hallucination_check"}

\* graph.invoke(initial_state) on the compiled graph (chat_with_agent.py:34-60).
\* The graph is compiled without a checkpointer, so every invoke starts from
\* the state it is given and runs are independent: one run is followed.
Invoke ==
    /\ pc = "idle"
    /\ \E scope \in Scopes, m \in 0..MaxRetriesBound, fb \in Feedbacks :
          st' = InitialState(scope, m, fb)
    /\ pc' = "retrieve"
    /\ retrieved' = <<>>
    /\ genInput' = <<>>
    /\ llmCalls' = 0
    /\ svc' = [op |-> "invoke", arg |-> None, feedback |-> None, outcome |-> "none"]
    /\ UNCHANGED <<answers, storeVars, ingestVars, probe>>

Retrieve ==
    /\ pc = "retrieve"
    /\ \/ \E hits \in DistinctSeqUpTo(Chunks, Min(Cardinality(Chunks), RetrieveK)) :
             /\ st' = RetrieveNode(st, hits)
             /\ retrieved' = st'.documents
             /\ pc' = "grade_documents"
       \/ \* get_db() or the hydration query raised
          /\ pc' = "FAILED"
          /\ UNCHANGED <<st, retrieved>>
    /\ llmCalls' = 0
    /\ UNCHANGED <<answers, svc, genInput, storeVars, ingestVars, probe>>

Grade ==
    /\ pc = "grade_documents"
    /\ LET n == Len(st.documents) IN
       \/ \E scores \in [1..n -> BinaryScores] :
             /\ st' = GradeNode(st, scores)
             /\ llmCalls' = n
             /\ pc' = DecideToGenerate(st')
       \/ \* the i-th generate_structured call raised
          \E i \in 1..n :
             /\ llmCalls' = i
             /\ pc' = "FAILED"
             /\ UNCHANGED st
    /\ UNCHANGED <<retrieved, answers, svc, genInput, storeVars, ingestVars, probe>>

\* Variant: no short circuit, the collaborator is asked in every case.
Generate_AlwaysCalls ==
    /\ pc = "generate"
    /\ \/ \E r \in GeneratedResponses(Len(st.documents)) :
             st' = GenerateOk(st, r)
       \/ st' = GenerateFailed(st)
    /\ llmCalls' = 1
    /\ pc' = "hallucination_check"
    /\ genInput' = st.documents
    /\ UNCHANGED <<retrieved, answers, svc, storeVars, ingestVars, probe>>

Generate ==
    /\ pc = "generate"
    /\ IF st.documents = <<>>
       THEN /\ st' = GenerateEmpty(st)
            /\ llmCalls' = 0
       ELSE /\ \/ \E r \in GeneratedResponses(Len(st.documents)) :
                     st' = GenerateOk(st, r)
               \/ st' = GenerateFailed(st)
            /\ llmCalls' = 1
    /\ pc' = "hallucination_check"
    /\ genInput' = st.documents
    /\ UNCHANGED <<retrieved, answers, svc, storeVars, ingestVars, probe>>

Verify ==
    /\ pc = "hallucination_check"
    /\ IF HallucinationSkips(st)
       THEN /\ st' = HallucinationSkip(st)
            /\ llmCalls' = 0
            /\ pc' = HallucinationEdges[GradeGenerationVDocumentsAndQuestion(st')]
       ELSE /\ llmCalls' = 1
            /\ \/ \E score \in BinaryScores :
                     /\ st' = HallucinationNode(st, score)
                     /\ pc' = HallucinationEdges[GradeGenerationVDocumentsAndQuestion(st')]
               \/ /\ pc' = "FAILED"
                  /\ UNCHANGED st
    /\ UNCHANGED <<retrieved, answers, svc, genInput, storeVars, ingestVars, probe>>

\* grade_node on its own: any candidate list and, for each candidate in
\* turn, the score of the one generate_structured call made for it.
GradeCandidates ==
    /\ "scores" \notin DOMAIN probe
    /\ \E docs \in SeqUpTo(Chunks, MaxGraded) :
       \E scores \in [1..Len(docs) -> BinaryScores] :
          probe' = [ documents |-> docs, scores |-> scores,
                     calls |-> Len(scores),
                     result |-> GradeNode(
                        [InitialState([none |-> TRUE, ids |-> {}], 0, None)
                            EXCEPT !.documents = docs], scores) ]
    /\ UNCHANGED <<agentVars, storeVars, ingestVars>>

\* generate_node on its own, lines 59-73: any candidate list that is not
\* empty, any response of the collaborator.
NarrowCandidates ==
    /\ probe.documents = <<>>
    /\ \E docs \in SeqUpTo(Chunks, Min(Cardinality(Chunks), RetrieveK)) \ {<<>>} :
       \E r \in GeneratedResponses(Len(docs)) :
          probe' = [ documents |-> docs, response |-> r,
                     result |-> GenerateOk(
                        [InitialState([none |-> TRUE, ids |-> {}], 0, None)
                            EXCEPT !.documents = docs], r) ]
    /\ UNCHANGED <<agentVars, storeVars, ingestVars>>

(***************************************************************************)
(* Services that start and resume runs through a checkpointer.  The client *)
(* issues one operation at a time: a direct graph.invoke, generate_answer  *)
(* or refine_answer.                                                       *)
(***************************************************************************)
QuestionIds == {"q1", "q2"}
Questions == {"q1"}              \* QuestionModel rows that exist
AnswerIds == {"a1", "a2"}

\* The keyword parameters create_rag_graph declares (graph.py:45: none).
CreateRagGraphParams == {}

\* create_rag_graph(**kwargs): Python raises TypeError for an undeclared keyword.
CreateRagGraph(kwargs) ==
    IF kwargs \subseteq CreateRagGraphParams THEN "graph" ELSE "TypeError"

\* AnswerService.generate_answer(question_id): raises before a run starts.
GenerateAnswer ==
    /\ pc = "idle"
    /\ \E q \in QuestionIds :
          /\ q \in Questions => CreateRagGraph({"checkpointer"}) = "TypeError"
          /\ svc' = [ op |-> "generate_answer", arg |-> q, feedback |-> None,
                      outcome |-> IF q \notin Questions THEN "ValueError"
                                  ELSE CreateRagGraph({"checkpointer"}) ]
    /\ UNCHANGED <<pc, st, retrieved, llmCalls, answers, genInput, storeVars, ingestVars, probe>>

\* ReviewService.refine_answer(answer_id, feedback): raises before
\* update_state and invoke are reached; no node runs, nothing is stored.
RefineAnswer ==
    /\ pc \in {"END", "FAILED"}
    /\ \E a \in AnswerIds, fb \in Feedbacks \ {None} :
          /\ a \in answers => CreateRagGraph({"checkpointer"}) = "TypeError"
          /\ svc' = [ op |-> "refine_answer", arg |-> a, feedback |-> fb,
                      outcome |-> IF a \notin answers THEN "ValueError"
                                  ELSE CreateRagGraph({"checkpointer"}) ]
    /\ UNCHANGED <<pc, st, retrieved, llmCalls, answers, genInput, storeVars, ingestVars, probe>>

(***************************************************************************)
(* Vector store (storage/faiss_store.py).  Every ingestion task and every  *)
(* retrieval builds its own IndexManager and with it its own FAISSStore,   *)
(* loaded from the files of the index name; the instances of concurrently  *)
(* running workers share nothing but those two files.                      *)
(***************************************************************************)
Workers == {"w1", "w2"}
MaxVectors == 2                 \* index and id mapping hold at most this many entries
InVals == {0, 1, 2}             \* vector values handed to the store
ExtIds == {"a", "b"}            \* external (chunk) ids

\* astype('float32'): values are rounded onto the coarser float32 grid.
Float32(x) == 2 * (x \div 2)

\* Squared Euclidean distance, as IndexFlatL2 computes it.
L2Sqr(x, y) == (x - y) * (x - y)

MaxOf(S) == CHOOSE x \in S : \A y \in S : y <= x
Range(f) == {f[x] : x \in DOMAIN f}

EmptyDict == <<>>

\* {v: k for k, v in id_map.items()}: the last key wins for a repeated value.
ReverseOf(id_map) ==
    [v \in Range(id_map) |-> MaxOf({k \in DOMAIN id_map : id_map[k] = v})]

\* The instance before __init__ has run, and the fields _create_new_index sets.
NoStore ==
    [ phase |-> "none", op |-> "none", index |-> <<>>, id_map |-> EmptyDict,
      reverse_id_map |-> EmptyDict, vectors |-> <<>>, ids |-> <<>> ]

CreateNewIndex(s) ==
    [s EXCEPT !.index = <<>>, !.id_map = EmptyDict, !.reverse_id_map = EmptyDict]

\* The two artifacts on disk.  Two fields record history for the properties
\* and are read by no operation: index.by is the worker whose save wrote the
\* index file, and paired tells that both files come from one and the same save.
AbsentFile == [state |-> "absent", data |-> <<>>]
CorruptFile == [state |-> "corrupt", data |-> <<>>]
OkFile(data) == [state |-> "ok", data |-> data]
EmptyDisk == [index |-> AbsentFile, mapping |-> AbsentFile, by |-> "nobody", paired |-> FALSE]

\* _load_or_create_index
LoadOrCreateIndex(d) ==
    IF d.index.state # "absent" /\ d.mapping.state # "absent"
    THEN IF d.index.state = "ok" /\ d.mapping.state = "ok"
         THEN [NoStore EXCEPT !.phase = "ready",
                              !.index = d.index.data,
                              !.id_map = d.mapping.data,
                              !.reverse_id_map = ReverseOf(d.mapping.data)]
         ELSE \* read_index or pickle.load raised
              [CreateNewIndex(NoStore) EXCEPT !.phase = "ready"]
    ELSE [CreateNewIndex(NoStore) EXCEPT !.phase = "ready"]

\* add_vectors, lines 98-114: the in-memory part.
RECURSIVE UpdateMappings(_, _, _)
UpdateMappings(s, int_id, ids) ==
    IF ids = <<>> THEN s
    ELSE UpdateMappings(
            [s EXCEPT !.id_map = (int_id :> Head(ids)) @@ s.id_map,
                      !.reverse_id_map = (Head(ids) :> int_id) @@ s.reverse_id_map],
            int_id + 1, Tail(ids))

\* Variant: the index is replaced by the new vectors instead of extended.
AddInMemory_ReplacesIndex(s, vectors, ids) ==
    LET vectors_np == [i \in 1..Len(vectors) |-> Float32(vectors[i])]
        start_id == IF DOMAIN s.id_map # {} THEN MaxOf(DOMAIN s.id_map) + 1 ELSE 0
    IN UpdateMappings([s EXCEPT !.index = vectors_np], start_id, ids)

AddInMemory(s, vectors, ids) ==
    LET vectors_np == [i \in 1..Len(vectors) |-> Float32(vectors[i])]
        start_id == IF DOMAIN s.id_map # {} THEN MaxOf(DOMAIN s.id_map) + 1 ELSE 0
    IN UpdateMappings([s EXCEPT !.index = s.index \o vectors_np], start_id, ids)

\* search(query_vector, k), lines 131-149: it reads the instance and changes
\* nothing, so it is an operator on the instance: the set of results the call
\* can return.  IndexFlatL2.search yields the min(k, ntotal)
\* nearest positions (0-based) by ascending distance; which of several
\* equidistant vectors comes first is left to the library.
Rankings(index, q, k) ==
    LET n == Len(index)
        m == Min(k, n)
        d(p) == L2Sqr(index[p + 1], q)
    IN { r \in [1..m -> 0..(n - 1)] :
           /\ \A i, j \in 1..m : r[i] = r[j] => i = j
           /\ \A i \in 1..(m - 1) : d(r[i]) <= d(r[i + 1])
           /\ \A p \in 0..(n - 1) :
                 (\A i \in 1..m : r[i] # p) => \A i \in 1..m : d(r[i]) <= d(p) }

SearchOutcomes(s, query_vector, k) ==
    IF Len(s.index) = 0 THEN {<<>>}
    ELSE LET q == Float32(query_vector) IN
         { LET hit == FilterSeq(r, [p \in 0..(Len(s.index) - 1) |-> p \in DOMAIN s.id_map])
           IN [i \in 1..Len(hit) |->
                  [id |-> s.id_map[hit[i]], distance |-> L2Sqr(s.index[hit[i] + 1], q)]]
           : r \in Rankings(s.index, q, k) }

\* FAISSStore(index_name)
Construct(w) ==
    /\ store[w].phase \in {"none", "ready"}
    /\ store' = [store EXCEPT ![w] = LoadOrCreateIndex(disk)]
    /\ result' = "ok"
    /\ UNCHANGED <<disk, agentVars, ingestVars, probe>>

\* add_vectors up to the call of save.
AddVectors(w) ==
    /\ store[w].phase = "ready"
    /\ LET held == IF Len(store[w].index) > Cardinality(DOMAIN store[w].id_map)
                   THEN Len(store[w].index) ELSE Cardinality(DOMAIN store[w].id_map)
           room == MaxVectors - held
       IN
       \/ \E vectors \in SeqUpTo(InVals, room) :
          \E ids \in [1..Len(vectors) -> ExtIds] :
             IF vectors = <<>>
             THEN /\ result' = "ok"
                  /\ UNCHANGED store
             ELSE /\ store' = [store EXCEPT ![w] =
                         [AddInMemory(store[w], vectors, ids) EXCEPT
                             !.phase = "write_index", !.op = "add",
                             !.vectors = vectors, !.ids = ids]]
                  /\ result' = "pending"
       \/ \* len(vectors) != len(ids)
          /\ result' = "ValueError"
          /\ UNCHANGED store
    /\ UNCHANGED <<disk, agentVars, ingestVars, probe>>

\* clear up to the call of save.
Clear(w) ==
    /\ store[w].phase = "ready"
    /\ store' = [store EXCEPT ![w] =
                    [CreateNewIndex(store[w]) EXCEPT !.phase = "write_index", !.op = "clear"]]
    /\ result' = "pending"
    /\ UNCHANGED <<disk, agentVars, ingestVars, probe>>

Returned(s) == [s EXCEPT !.phase = "ready", !.op = "none", !.vectors = <<>>, !.ids = <<>>]

\* save, line 76: faiss.write_index succeeds.
WriteIndex(w) ==
    /\ store[w].phase = "write_index"
    /\ disk' = [disk EXCEPT !.index = OkFile(store[w].index),
                            !.by = w, !.paired = FALSE]
    /\ store' = [store EXCEPT ![w].phase = "write_mapping"]
    /\ result' = "pending"
    /\ UNCHANGED <<agentVars, ingestVars, probe>>

\* save, lines 77-78: open(mapping_path, 'wb') and pickle.dump succeed.
WriteMapping(w) ==
    /\ store[w].phase = "write_mapping"
    /\ disk' = [disk EXCEPT !.mapping = OkFile(store[w].id_map),
                            !.paired = (disk.by = w /\ disk.index.state = "ok")]
    /\ store' = [store EXCEPT ![w] = Returned(store[w])]
    /\ result' = "ok"
    /\ UNCHANGED <<agentVars, ingestVars, probe>>

\* save, line 76 raises: the index file is left as it was or broken; save
\* raises IOError out of add_vectors / clear.
WriteIndexFails(w) ==
    /\ store[w].phase = "write_index"
    /\ \/ UNCHANGED disk
       \/ disk' = [disk EXCEPT !.index = CorruptFile, !.by = w, !.paired = FALSE]
    /\ store' = [store EXCEPT ![w] = Returned(store[w])]
    /\ result' = "IOError"
    /\ UNCHANGED <<agentVars, ingestVars, probe>>

\* save, lines 77-78 raise: a failed open leaves the mapping file as it was,
\* a failed dump leaves it truncated.
WriteMappingFails(w) ==
    /\ store[w].phase = "write_mapping"
    /\ \/ UNCHANGED disk
       \/ disk' = [disk EXCEPT !.mapping = CorruptFile, !.paired = FALSE]
    /\ store' = [store EXCEPT ![w] = Returned(store[w])]
    /\ result' = "IOError"
    /\ UNCHANGED <<agentVars, ingestVars, probe>>

(***************************************************************************)
(* Ingestion (services/ingestion/pipeline.py, indexing/manager.py,         *)
(* services/document_service.py): IngestionPipeline.run on one document,   *)
(* one step per stage.  The layers are seen from outside here: add_chunks  *)
(* returns or raises.                                                      *)
(***************************************************************************)
MaxRuns == 2                    \* ingestion runs started on the document

ProjectIds == {"p1", "p2", "p3"}
Messages == {"", "boom"}        \* str(e) of the exception a stage raises
NoTextMessage == "No text extracted"

\* The classes storage/db/models.py maps, and the class the invalidation
\* pass hands to db.query: Project of src.models.project, a pydantic schema.
OrmMapped ==
    { "ProjectModel", "SectionModel", "QuestionModel", "AnswerModel",
      "CitationModel", "DocumentModel", "ChunkModel", "GroundTruthModel",
      "EvaluationModel" }
InvalidationEntity == "Project"

\* db.query(entity) raises ArgumentError for a class that is not mapped.
QueryRaises(entity) == entity \notin OrmMapped

\* DocumentService.update_status on the row of an existing document.
UpdateStatus(doc, status, error_message) ==
    [doc EXCEPT !.status = status,
                !.error_message = IF TruthyStr(error_message) THEN error_message ELSE @]

\* The loop of _invalidate_all_docs_projects over the rows its query selects.
InvalidateRows(rows) ==
    [p \in DOMAIN rows |->
        IF rows[p].scope_type = "ALL_DOCS" /\ rows[p].status # "OUTDATED"
        THEN [rows[p] EXCEPT !.status = "OUTDATED", !.updated_at = @ + 1]
        ELSE rows[p]]

NoRun ==
    [ n |-> 0, found |-> FALSE, exc |-> None, invalidation |-> "none",
      accepted |-> FALSE, outcome |-> "none" ]

\* An exception with message m leaves the try block.
Raises(m) ==
    /\ ipc' = "except"
    /\ run' = [run EXCEPT !.exc = m]

\* run, lines 56-59: get_document; a missing document ends the run at once.
RunStart ==
    /\ ipc = "idle"
    /\ run.n < MaxRuns
    /\ \/ /\ ipc' = "update_indexing"
          /\ run' = [NoRun EXCEPT !.n = run.n + 1, !.found = TRUE]
       \/ \* document_id names no row
          /\ run' = [NoRun EXCEPT !.n = run.n + 1, !.outcome = "completed"]
          /\ UNCHANGED ipc
    /\ UNCHANGED <<document, projects, chunkRows, layers, agentVars, storeVars, probe>>

\* run, line 63
UpdateIndexing ==
    /\ ipc = "update_indexing"
    /\ \/ /\ document' = UpdateStatus(document, "INDEXING", None)
          /\ ipc' = "parse"
          /\ UNCHANGED run
       \/ \E m \in Messages : Raises(m) /\ UNCHANGED document
    /\ UNCHANGED <<projects, chunkRows, layers, agentVars, storeVars, probe>>

\* run, lines 67-73: _get_parser, parse, page_count committed.
Parse ==
    /\ ipc = "parse"
    /\ \/ ipc' = "split" /\ UNCHANGED run
       \/ \E m \in Messages : Raises(m)
    /\ UNCHANGED <<document, projects, chunkRows, layers, agentVars, storeVars, probe>>

\* run, lines 76-89: no chunk ends the run with ERROR and a return.
Split ==
    /\ ipc = "split"
    /\ \/ /\ ipc' = "save_chunks"
          /\ UNCHANGED <<document, run>>
       \/ /\ document' = UpdateStatus(document, "ERROR", NoTextMessage)
          /\ ipc' = "idle"
          /\ run' = [run EXCEPT !.outcome = "completed"]
       \/ \E m \in Messages : Raises(m) /\ UNCHANGED document
    /\ UNCHANGED <<projects, chunkRows, layers, agentVars, storeVars, probe>>

\* run, lines 92-118: rows added and flushed, then committed.
SaveChunks ==
    /\ ipc = "save_chunks"
    /\ \/ /\ chunkRows' = [chunkRows EXCEPT !.committed = @ + 1]
          /\ ipc' = "add_semantic"
          /\ UNCHANGED run
       \/ \E m \in Messages :
             /\ Raises(m)
             /\ chunkRows' = [chunkRows EXCEPT !.pending = 1]
    /\ UNCHANGED <<document, projects, layers, agentVars, storeVars, probe>>

\* add_document, line 41
AddSemantic ==
    /\ ipc = "add_semantic"
    /\ \/ /\ layers' = [layers EXCEPT !.semantic = @ + 1]
          /\ run' = [run EXCEPT !.accepted = TRUE]
          /\ ipc' = "add_citation"
       \/ \E m \in Messages : Raises(m) /\ UNCHANGED layers
    /\ UNCHANGED <<document, projects, chunkRows, agentVars, storeVars, probe>>

\* add_document, line 45
AddCitation ==
    /\ ipc = "add_citation"
    /\ \/ /\ layers' = [layers EXCEPT !.citation = @ + 1]
          /\ run' = [run EXCEPT !.accepted = TRUE]
          /\ ipc' = "invalidate"
       \/ \E m \in Messages : Raises(m) /\ UNCHANGED layers
    /\ UNCHANGED <<document, projects, chunkRows, agentVars, storeVars, probe>>

\* Variant: a failure of the invalidation pass leaves add_document as an
\* exception.
Invalidate_Propagates ==
    /\ ipc = "invalidate"
    /\ IF QueryRaises(InvalidationEntity)
       THEN /\ run' = [run EXCEPT !.invalidation = "failed", !.exc = "boom"]
            /\ ipc' = "except"
            /\ UNCHANGED projects
       ELSE /\ projects' = InvalidateRows(projects)
            /\ run' = [run EXCEPT !.invalidation = "done"]
            /\ ipc' = "update_ready"
    /\ UNCHANGED <<document, chunkRows, layers, agentVars, storeVars, probe>>

\* add_document, line 48: _invalidate_all_docs_projects, whose except clause
\* swallows whatever the session, the query or the commit raises.
Invalidate ==
    /\ ipc = "invalidate"
    /\ IF QueryRaises(InvalidationEntity)
       THEN /\ run' = [run EXCEPT !.invalidation = "failed"]
            /\ UNCHANGED projects
       ELSE \/ /\ projects' = InvalidateRows(projects)
               /\ run' = [run EXCEPT !.invalidation = "done"]
            \/ /\ run' = [run EXCEPT !.invalidation = "failed"]
               /\ UNCHANGED projects
    /\ ipc' = "update_ready"
    /\ UNCHANGED <<document, chunkRows, layers, agentVars, storeVars, probe>>

\* run, line 124
UpdateReady ==
    /\ ipc = "update_ready"
    /\ \/ /\ document' = UpdateStatus(document, "READY", None)
          /\ ipc' = "idle"
          /\ run' = [run EXCEPT !.outcome = "completed"]
       \/ \E m \in Messages : Raises(m) /\ UNCHANGED document
    /\ UNCHANGED <<projects, chunkRows, layers, agentVars, storeVars, probe>>

\* run, lines 127-132: rollback, update_status(ERROR, str(e)), raise; the
\* task turns the exception into a "failed" result.  The status update of
\* the handler can raise as well and then leaves the row as it was.
Except ==
    /\ ipc = "except"
    /\ chunkRows' = [chunkRows EXCEPT !.pending = 0]
    /\ \/ document' = UpdateStatus(document, "ERROR", run.exc)
       \/ UNCHANGED document
    /\ ipc' = "idle"
    /\ run' = [run EXCEPT !.outcome = "failed"]
    /\ UNCHANGED <<projects, layers, agentVars, storeVars, probe>>

(***************************************************************************)
(* Specifications.                                                         *)
(***************************************************************************)
StoreInit ==
    /\ disk = EmptyDisk
    /\ store = [w \in Workers |-> NoStore]
    /\ result = "ok"

AgentInit ==
    /\ pc = "idle"
    /\ st = InitialState([none |-> TRUE, ids |-> {}], 0, None)
    /\ retrieved = <<>>
    /\ llmCalls = 0
    /\ answers = {"a1"}
    /\ svc = [op |-> "none", arg |-> None, feedback |-> None, outcome |-> "none"]
    /\ genInput = <<>>

IngestInit ==
    /\ ipc = "idle"
    /\ document = [status |-> "UPLOADED", error_message |-> None]
    /\ projects =
          [p \in ProjectIds |->
              [ scope_type |-> IF p = "p2" THEN "SPECIFIC" ELSE "ALL_DOCS",
                status |-> IF p = "p3" THEN "OUTDATED" ELSE "READY",
                updated_at |-> 0 ]]
    /\ chunkRows = [committed |-> 0, pending |-> 0]
    /\ layers = [semantic |-> 0, citation |-> 0]
    /\ run = NoRun

ProbeInit ==
    probe = [ documents |-> <<>>,
              response |-> [ answer |-> "", is_answerable |-> FALSE,
                             confidence_score |-> 0, cited_indices |-> <<>> ],
              result |-> InitialState([none |-> TRUE, ids |-> {}], 0, None) ]

Init == AgentInit /\ StoreInit /\ IngestInit /\ ProbeInit

NodeStep == Retrieve \/ Grade \/ Generate \/ Verify

AgentNext == Invoke \/ Retrieve \/ Grade \/ Generate \/ Verify
                \/ GenerateAnswer \/ RefineAnswer

AgentSpec == Init /\ [][AgentNext]_vars

\* The life of one store instance after the other in a single worker, with
\* saves that may fail.
StoreNext ==
    \E w \in {"w1"} :
        \/ Construct(w)
        \/ AddVectors(w)
        \/ Clear(w)
        \/ WriteIndex(w)
        \/ WriteMapping(w)
        \/ WriteIndexFails(w)
        \/ WriteMappingFails(w)

StoreSpec == Init /\ [][StoreNext]_vars

\* Two ingestion workers adding through their own instances; no write fails.
ConcurrentNext ==
    \E w \in Workers :
        \/ Construct(w)
        \/ AddVectors(w)
        \/ WriteIndex(w)
        \/ WriteMapping(w)

ConcurrentSpec == Init /\ [][ConcurrentNext]_vars

\* Ingestion runs on the document, one after the other.
IngestNext ==
    \/ RunStart \/ UpdateIndexing \/ Parse \/ Split \/ SaveChunks
    \/ AddSemantic \/ AddCitation \/ Invalidate \/ UpdateReady \/ Except

IngestSpec == Init /\ [][IngestNext]_vars

\* generate_node applied to candidate lists and collaborator responses.
NarrowSpec == Init /\ [][NarrowCandidates]_vars

\* grade_node applied to candidate lists and collaborator scores.
GradeSpec == Init /\ [][GradeCandidates]_vars

(***************************************************************************)
(* Properties of the agent control loop.                                   *)
(***************************************************************************)
GenCount(steps) == Cardinality({i \in 1..Len(steps) : steps[i] = "generate"})

\* The step in which node `name` ran to its return.
NodeRan(name) == pc = name /\ st'.steps # st.steps

\* C1: whenever VERIFY reports not grounded and the retry counter on entry
\* to VERIFY is below max_retries, the run goes back to GENERATE with the
\* counter exactly one higher.
C1_RetryWhileBelowMax ==
    [][ (NodeRan("hallucination_check") /\ ~st'.is_answerable
            /\ st.retries < st.max_retries)
        => (pc' = "generate" /\ st'.retries = st.retries + 1) ]_vars

\* Budget and progress of a run, the two halves of C2.
WithinBudget ==
    /\ GenCount(st.steps) <= st.max_retries + 1
    /\ Len(st.steps) <= 2 * (st.max_retries + 1) + 2
    /\ pc \in Running => ENABLED NodeStep

NodeProgress ==
    pc \in Running =>
        (pc' \in {"END", "FAILED"} \/ Len(st'.steps) = Len(st.steps) + 1)

\* C2: for every max_retries >= 0 and whatever the collaborator returns, a
\* run executes GENERATE at most max_retries + 1 times and comes to its end:
\* its trace never grows beyond 2 * (max_retries + 1) + 2 steps, a run that
\* has not ended can always execute its next node, and every node either
\* ends the run or adds exactly one step to the trace.
C2_TerminatesWithinBudget == []WithinBudget /\ [][NodeProgress]_vars

\* A run that used up its whole retry budget and then ended.
C2_Witness ==
    /\ pc = "END"
    /\ st.max_retries = MaxRetriesBound
    /\ st.retries = st.max_retries
    /\ GenCount(st.steps) > 1

ExpectedStep(i) ==
    IF i = 1 THEN "retrieve"
    ELSE IF i = 2 THEN "grade_documents"
    ELSE IF i % 2 = 1 THEN "generate" ELSE "check_hallucinations"

\* C4: the step trace of a fresh run is retrieve, grade_documents, then
\* (generate, check_hallucinations) pairs; the run ends only after at least
\* one such pair, and GRADE is followed by GENERATE also with no candidates.
C4_StepTrace ==
    LET n == Len(st.steps) IN
    /\ \A i \in 1..n : st.steps[i] = ExpectedStep(i)
    /\ pc = "retrieve" => n = 0
    /\ pc = "grade_documents" => n = 1
    /\ pc = "generate" => n >= 2 /\ n % 2 = 0
    /\ pc = "hallucination_check" => n >= 3 /\ n % 2 = 1
    /\ pc = "END" => n >= 4 /\ n % 2 = 0
    /\ n >= 2 => pc # "idle"

\* A run in which GRADE removed every retrieved candidate and that went on
\* through GENERATE and VERIFY to its end.
C4_Witness ==
    /\ pc = "END"
    /\ retrieved # <<>>
    /\ st.generation = NoInfoText
    /\ st.steps = <<"retrieve", "grade_documents", "generate", "check_hallucinations">>

\* C5: resuming a terminated run with feedback executes GENERATE next, with
\* the feedback in the state GENERATE sees and the step trace kept for
\* appending.
C5_ResumeReentersGenerate ==
    [][ (svc' # svc /\ svc'.op = "refine_answer" /\ svc'.arg \in answers
            /\ pc = "END")
        => /\ pc' = "generate"
           /\ st'.feedback = svc'.feedback
           /\ st'.steps = st.steps ]_vars


(***************************************************************************)
(* Properties of the vector store.                                         *)
(***************************************************************************)
Injective(f) == \A j, k \in DOMAIN f : f[j] = f[k] => j = k

\* No store call is under way in any worker.
Quiescent == \A w \in Workers : store[w].phase \in {"none", "ready"}

\* C6: for every interleaving of two ingestion runs adding to the same index,
\* once both have returned the persisted index and id mapping contain every
\* vector and every external id the runs added, and the persisted index has
\* as many vectors as the persisted mapping has entries.
C6_ConcurrentAddsAllPersisted ==
    Quiescent =>
        /\ \A w \in Workers :
              /\ Range(store[w].index) \subseteq Range(disk.index.data)
              /\ Range(store[w].id_map) \subseteq Range(disk.mapping.data)
        /\ Len(disk.index.data) = Cardinality(DOMAIN disk.mapping.data)

\* C7: at every point of a store's life, reloads after failed saves
\* included, the index holds as many vectors as the id mapping has entries.
C7_IndexCountEqualsMappingSize ==
    \A w \in Workers :
        Len(store[w].index) = Cardinality(DOMAIN store[w].id_map)

\* C8: after any sequence of adds and reloads the id mapping is a bijection:
\* no two internal ids carry the same external id, and reverse_id_map is the
\* exact inverse of id_map.
C8_MappingIsBijection ==
    \A w \in Workers :
        /\ Injective(store[w].id_map)
        /\ DOMAIN store[w].reverse_id_map = Range(store[w].id_map)
        /\ \A k \in DOMAIN store[w].id_map :
              store[w].reverse_id_map[store[w].id_map[k]] = k

\* Both files are readable and were written by one and the same save.
SameSavePair(d) == d.index.state = "ok" /\ d.mapping.state = "ok" /\ d.paired

LoadedFrom(s, d) == s.index = d.index.data /\ s.id_map = d.mapping.data
FreshEmpty(s) == s.index = <<>> /\ s.id_map = EmptyDict /\ s.reverse_id_map = EmptyDict

ConstructedRight(w) ==
    Construct(w) =>
        IF SameSavePair(disk) THEN LoadedFrom(store'[w], disk)
        ELSE FreshEmpty(store'[w])

\* C9: construction takes the store's contents from disk only when index
\* file and mapping file were written by the same save; when a file is
\* missing, unreadable or left over from another save, the store starts
\* fresh and empty.
C9_LoadsOnlySameSavePair == [][\A w \in Workers : ConstructedRight(w)]_vars

\* An add of worker w returns successfully in this step.
AddReturns(w) == store[w].op = "add" /\ WriteMapping(w)

RoundTrips(w) ==
    AddReturns(w) =>
        \A i \in 1..Len(store[w].vectors) :
            SearchOutcomes(store'[w], store[w].vectors[i], 1)
                = {<<[id |-> store[w].ids[i], distance |-> 0]>>}

\* C10: when add(vectors, ids) has returned, on whatever prior contents,
\* search(vectors[i], k=1) returns exactly one hit for every position i:
\* ids[i] at distance 0.
C10_AddThenSearchRoundTrip == [][\A w \in Workers : RoundTrips(w)]_vars


\* The step of worker w in which add_vectors changes the instance, the
\* steps of its save, and the step in which its save returns normally.
AddStep(w) ==
    store[w].phase = "ready" /\ store'[w].phase = "write_index" /\ store'[w].op = "add"
SaveStep(w) == store[w].phase \in {"write_index", "write_mapping"}
SaveReturns(w) ==
    store[w].phase = "write_mapping" /\ store'[w].phase = "ready" /\ result' = "ok"

AddCounts(w) ==
    /\ AddStep(w) =>
          Len(store'[w].index) = Len(store[w].index) + Len(store'[w].vectors)
    /\ SaveStep(w) =>
          /\ store'[w].index = store[w].index
          /\ store'[w].id_map = store[w].id_map

ReloadsSameMapping(w) ==
    SaveReturns(w) =>
        /\ LoadOrCreateIndex(disk').id_map = store'[w].id_map
        /\ LoadOrCreateIndex(disk').reverse_id_map = ReverseOf(store'[w].id_map)

\* C11: every add call grows the index by exactly the number of vectors it
\* was given and the save that follows changes nothing in memory, so a store
\* that started empty holds M vectors after adds of M vectors in total; and
\* when a save has written the files, a store loaded from them has the id
\* mapping of the store that wrote them.
C11_AddCountsAndReloadKeepsMapping ==
    [][\A w \in Workers : AddCounts(w) /\ ReloadsSameMapping(w)]_vars

\* Two adds of one vector each on an empty store have returned and the files
\* load to the mapping in memory.
C11_Witness ==
    /\ store["w1"].phase = "ready" /\ result = "ok"
    /\ Len(store["w1"].index) >= 2
    /\ DOMAIN store["w1"].id_map = 0..(Len(store["w1"].index) - 1)
    /\ disk.paired
    /\ LoadOrCreateIndex(disk).id_map = store["w1"].id_map
    /\ LoadOrCreateIndex(disk).index = store["w1"].index

(***************************************************************************)
(* Properties of retrieval.                                                *)
(***************************************************************************)
\* The result lists the semantic search can hand to the post-filter.
UnfilteredResults == DistinctSeqUpTo(Chunks, Min(Cardinality(Chunks), RetrieveK))

\* hits without the chunks of documents outside S, order kept.
InScope(hits, S) == FilterSeq(hits, [c \in Chunks |-> ChunkDoc[c] \in S])

\* C12: when hybrid search is given a document scope S, what it returns is
\* an unfiltered result list with the chunks of documents outside S removed
\* and the order kept; so every returned chunk has its document in S.
C12_ScopedSearchFiltersToScope ==
    [][ (NodeRan("retrieve") /\ ~st.document_ids.none)
        => /\ \A i \in 1..Len(st'.documents) :
                 ChunkDoc[st'.documents[i]] \in st.document_ids.ids
           /\ \E hits \in UnfilteredResults :
                 st'.documents = InScope(hits, st.document_ids.ids) ]_vars

(***************************************************************************)
(* Properties of ingestion.                                                *)
(***************************************************************************)
\* The add_document call of the current run is over, normally or not.
AddDocumentEnded == ipc \in {"update_ready", "except", "idle"}

\* C13: when add_document has ended and a layer accepted the chunk set,
\* every project of scope ALL_DOCS has status OUTDATED.
C13_AddOutdatesAllDocsProjects ==
    (run.accepted /\ AddDocumentEnded) =>
        \A p \in ProjectIds :
            projects[p].scope_type = "ALL_DOCS" => projects[p].status = "OUTDATED"

\* The step in which the invalidation pass runs.
InvalidationPass == ipc = "invalidate" /\ ipc' # ipc

FlippedOnce(p) ==
    /\ projects'[p].status = "OUTDATED"
    /\ projects'[p].updated_at = projects[p].updated_at + 1
    /\ projects'[p].scope_type = projects[p].scope_type

\* C14: the invalidation pass writes every ALL_DOCS project that is not
\* OUTDATED exactly once, making it OUTDATED, and leaves every other
\* project as it was; no other step of ingestion writes a project.
C14_InvalidationFlipsExactlyOnce ==
    [][ IF InvalidationPass
        THEN \A p \in ProjectIds :
                IF projects[p].scope_type = "ALL_DOCS" /\ projects[p].status # "OUTDATED"
                THEN FlippedOnce(p)
                ELSE projects'[p] = projects[p]
        ELSE projects' = projects ]_vars

InvalidationFailureSwallowed ==
    (InvalidationPass /\ run'.invalidation = "failed") =>
        /\ ipc' = "update_ready"
        /\ run'.exc = None
        /\ document' = document

ReadyAfterFailedInvalidation ==
    (ipc = "idle" /\ run.invalidation = "failed" /\ run.exc = None) =>
        /\ document.status = "READY"
        /\ run.outcome = "completed"

\* C15: a failed invalidation pass raises nothing and changes no status:
\* add_document returns to the run, which goes on to mark the document
\* READY; a run whose only failure was the invalidation ends with the
\* document READY and a normal return.
C15_InvalidationFailureNotPropagated ==
    [][InvalidationFailureSwallowed]_vars /\ []ReadyAfterFailedInvalidation

\* A run has ended READY although its invalidation pass failed.
C15_Witness ==
    /\ ipc = "idle" /\ run.invalidation = "failed"
    /\ document.status = "READY" /\ run.outcome = "completed"

\* The row carries message msg; a failure without message text has none to carry.
Carries(msg) ==
    IF msg = "" THEN document.error_message \in {None, ""}
    ELSE document.error_message = msg

\* C16: an ingestion run on an existing document that has ended left the
\* document READY or ERROR, and an ERROR row carries the message of the
\* failure of that run: of the exception raised, or that no text was
\* extracted.
C16_RunEndsReadyOrErrorWithMessage ==
    (ipc = "idle" /\ run.found) =>
        /\ document.status \in {"READY", "ERROR"}
        /\ document.status = "ERROR" =>
              IF run.outcome = "failed" THEN Carries(run.exc)
              ELSE Carries(NoTextMessage)

(***************************************************************************)
(* Properties of failure handling in the agent.                            *)
(***************************************************************************)
\* The step of GENERATE in which the reasoning collaborator raised.
GenerateCallFailed == NodeRan("generate") /\ st'.generation = GenErrorText

\* C17: a failure of a collaborator call in a node ends the run as failed:
\* the run does not go on to another node or to END as if the call had
\* succeeded.
C17_CollaboratorFailureEndsRunFailed ==
    [][GenerateCallFailed => pc' = "FAILED"]_vars

(***************************************************************************)
(* Properties of search.                                                   *)
(***************************************************************************)
QueryKs == {1, 2, 5}

\* out lists, by ascending distance, min(k, ntotal) stored vectors none of
\* which is farther from q than a stored vector left out, each with the
\* external id of its position.
NearestK(s, q, k, out) ==
    LET n == Len(s.index)
        d(p) == L2Sqr(s.index[p + 1], Float32(q))
    IN /\ Len(out) = Min(k, n)
       /\ \A i \in 1..(Len(out) - 1) : out[i].distance <= out[i + 1].distance
       /\ \E pos \in [1..Len(out) -> 0..(n - 1)] :
             /\ \A i, j \in 1..Len(out) : pos[i] = pos[j] => i = j
             /\ \A i \in 1..Len(out) :
                   /\ out[i].distance = d(pos[i])
                   /\ pos[i] \in DOMAIN s.id_map
                   /\ out[i].id = s.id_map[pos[i]]
             /\ \A p \in 0..(n - 1) :
                   (\A i \in 1..Len(out) : pos[i] # p) =>
                       \A i \in 1..Len(out) : d(pos[i]) <= d(p)

\* C18: whatever a store holds, search(q, k) returns the min(k, ntotal)
\* stored vectors nearest to q as (external id, squared distance) pairs in
\* ascending distance; on an empty index that is the empty result.
C18_SearchReturnsNearestK ==
    \A w \in Workers :
        store[w].phase = "ready" =>
            \A q \in InVals, k \in QueryKs :
                \A out \in SearchOutcomes(store[w], q, k) :
                    NearestK(store[w], q, k, out)

(***************************************************************************)
(* Properties of the candidate list across GENERATE.                       *)
(***************************************************************************)
\* The candidates of docs at the entries of cited that lie in 1..Len(docs),
\* in the order of cited.
RECURSIVE Narrowed(_, _)
Narrowed(docs, cited) ==
    IF cited = <<>> THEN <<>>
    ELSE (IF Head(cited) \in 1..Len(docs) THEN <<docs[Head(cited)]>> ELSE <<>>)
            \o Narrowed(docs, Tail(cited))

\* C19: after a GENERATE that got a response, the candidate list is made of
\* the candidates at the reported 1-based indices, indices outside 1..n
\* ignored; every member of it is a member of the list GENERATE was given.
C19_GenerateNarrowsToCited ==
    /\ probe.result.documents = Narrowed(probe.documents, probe.response.cited_indices)
    /\ Range(probe.result.documents) \subseteq Range(probe.documents)

\* A response citing an index in range and one out of range has been applied.
C19_Witness ==
    /\ probe.documents # <<>>
    /\ \E j \in 1..Len(probe.response.cited_indices) :
          probe.response.cited_indices[j] \notin 1..Len(probe.documents)
    /\ \E j \in 1..Len(probe.response.cited_indices) :
          probe.response.cited_indices[j] \in 1..Len(probe.documents)
    /\ Len(probe.result.documents) = 1
    /\ Len(probe.documents) = 2

\* The step in which GENERATE runs again after a not-grounded verdict.
RetryGenerate == NodeRan("generate") /\ GenCount(st.steps) > 0

\* C20: a GENERATE that runs again after a not-grounded verdict is given
\* the candidate list the previous GENERATE of the run was given.
C20_RetryKeepsCandidateSet ==
    [][RetryGenerate => st.documents = genInput]_vars

(***************************************************************************)
(* Properties of VERIFY.                                                   *)
(***************************************************************************)
VerifyFrame ==
    NodeRan("hallucination_check") =>
        /\ st'.generation = st.generation
        /\ st'.confidence_score = st.confidence_score
        /\ st'.documents = st.documents
        /\ st'.document_ids = st.document_ids
        /\ st'.max_retries = st.max_retries
        /\ st'.feedback = st.feedback
        /\ st'.retries \in {st.retries, st.retries + 1}
        /\ st'.is_answerable => st'.retries = st.retries

\* C21: VERIFY changes nothing but is_answerable, retries and steps; a
\* grounded verdict leaves retries as it was; generation, confidence score
\* and candidate list are those GENERATE left, so a run that VERIFY ends
\* with the retries used up returns the output of its last GENERATE.
C21_VerifyChangesOnlyVerdictFields == [][VerifyFrame]_vars

\* A run has ended not grounded, its retries used up, with the answer of
\* its last GENERATE.
C21_Witness ==
    /\ pc = "END"
    /\ ~st.is_answerable
    /\ st.retries > 0 /\ st.retries >= st.max_retries
    /\ st.generation \in {"A1", "A2"}
    /\ st.documents # <<>>

\* C22: VERIFY reports grounded without asking the collaborator only when
\* the generated text and the candidate list are both absent; in every
\* other case it makes the collaborator call.
C22_VerifySkipsOnlyWhenBothAbsent ==
    [][ (NodeRan("hallucination_check") /\ llmCalls' = 0)
        => (~TruthyStr(st.generation) /\ st.documents = <<>>) ]_vars

(***************************************************************************)
(* Properties of GRADE.                                                    *)
(***************************************************************************)
\* The candidates whose own score is a yes, in the order of docs.
RECURSIVE Relevant(_, _)
Relevant(docs, scores) ==
    IF docs = <<>> THEN <<>>
    ELSE (IF Head(scores) \in {"yes", "YES"} THEN <<Head(docs)>> ELSE <<>>)
            \o Relevant(Tail(docs), Tail(scores))

\* C23: GRADE asks the collaborator once per candidate and outputs the
\* candidates judged relevant in their original order; whether a candidate
\* is kept depends on its own verdict only, so on no order of evaluation.
C23_GradeKeepsRelevantInOrder ==
    "scores" \in DOMAIN probe =>
        /\ probe.calls = Len(probe.documents)
        /\ probe.result.documents = Relevant(probe.documents, probe.scores)
        /\ probe.result.steps = <<"grade_documents">>

\* Three candidates were graded no, YES, yes: the last two are kept.
C23_Witness ==
    /\ "scores" \in DOMAIN probe
    /\ Len(probe.documents) = 3
    /\ probe.scores = <<"no", "YES", "yes">>
    /\ probe.result.documents = <<probe.documents[2], probe.documents[3]>>
    /\ probe.documents[2] # probe.documents[3]

(***************************************************************************)
(* Further properties of ingestion and of the store.                       *)
(***************************************************************************)
\* C24: whenever no add_document call is under way, calls that failed
\* partway included, the semantic layer and the citation layer hold the
\* same chunk sets.
C24_LayersHoldSameChunks ==
    (ipc \notin {"add_semantic", "add_citation"}) =>
        layers.semantic = layers.citation

\* The store of worker w as it was before the add it is saving.
BeforeAdd(s) ==
    LET added == Len(s.ids)
        new_ids == {k \in DOMAIN s.id_map :
                       Cardinality({j \in DOMAIN s.id_map : j >= k}) <= added}
    IN [s EXCEPT !.index = SubSeq(s.index, 1, Len(s.index) - added),
                 !.id_map = [k \in DOMAIN s.id_map \ new_ids |-> s.id_map[k]]]

Saving(w) == store[w].phase \in {"write_index", "write_mapping"} /\ store[w].op = "add"

\* The step in which a retrieval of worker r builds its store while worker
\* w is saving an add.
LoadsDuringAdd(r, w) ==
    /\ r # w
    /\ Saving(w)
    /\ store[r].phase \in {"none", "ready"}
    /\ store'[r] # store[r]
    /\ store'[r].phase = "ready"

SnapshotSearch(r, w) ==
    LoadsDuringAdd(r, w) =>
        \A q \in InVals, k \in QueryKs :
            \/ SearchOutcomes(store'[r], q, k) = SearchOutcomes(BeforeAdd(store[w]), q, k)
            \/ SearchOutcomes(store'[r], q, k) = SearchOutcomes(store[w], q, k)

\* C25: a search on a store built while an add on the same layer is being
\* saved returns what the same search returns on the index as it was before
\* the add, or as it is after the add.
C25_SearchSeesConsistentSnapshot ==
    [][\A r, w \in Workers : SnapshotSearch(r, w)]_vars

\* C29: ingesting a document again adds nothing: the document has at most
\* the chunk rows of one run and each layer at most the vectors of one run.
C29_ReingestionIdempotent ==
    /\ chunkRows.committed <= 1
    /\ layers.semantic <= 1
    /\ layers.citation <= 1

\* The step in which the save of an add of worker w raises.
AddSaveFails(w) ==
    /\ store[w].phase \in {"write_index", "write_mapping"}
    /\ store[w].op = "add"
    /\ store'[w].phase = "ready"
    /\ result' = "IOError"

AddHadNoEffect(w) ==
    AddSaveFails(w) =>
        /\ store'[w].index = BeforeAdd(store[w]).index
        /\ store'[w].id_map = BeforeAdd(store[w]).id_map
        /\ LoadOrCreateIndex(disk').index = store'[w].index
        /\ LoadOrCreateIndex(disk').id_map = store'[w].id_map

\* C30: when the save of an add raises, index and id mapping in memory are
\* what they were before the call, and the files load to the same contents.
C30_FailedAddHasNoEffect == [][\A w \in Workers : AddHadNoEffect(w)]_vars

(***************************************************************************)
(* Further properties of the agent run.                                    *)
(***************************************************************************)
\* The step in which VERIFY ends the run.
RunEnds == NodeRan("hallucination_check") /\ pc' = "END"

\* C26: the is_answerable a finished run reports is the one its last
\* GENERATE produced; a run whose GENERATE was given no candidate ends with
\* is_answerable = FALSE.
C26_AnswerableIsGenerates ==
    [][ RunEnds => /\ st'.is_answerable = st.is_answerable
                   /\ genInput = <<>> => ~st'.is_answerable ]_vars

\* C27: in every state of a run the retry counter lies in 0..max_retries.
C27_RetriesWithinMax ==
    st.retries >= 0 /\ st.retries <= st.max_retries

\* C28: after RETRIEVE every candidate is a chunk RETRIEVE returned, and in
\* a run restricted to a document set every candidate is a chunk of a
\* document of the set.
C28_CandidatesFromRetrievedInScope ==
    (pc \notin {"idle", "retrieve"}) =>
        /\ Range(st.documents) \subseteq Range(retrieved)
        /\ ~st.document_ids.none =>
              \A c \in Range(st.documents) : ChunkDoc[c] \in st.document_ids.ids

====
